---- MODULE Spec2Model ----
(***************************************************************************)
(* Model of koom-native/src/main/jni/src/memory_map.cpp: the table of     *)
(* /proc/self/maps entries (MemoryMap::entries_), the lazy ELF inspection *)
(* of an entry (Init, ValidElf, ReadLoadbias, GetVal), the resolution of  *)
(* a pc (MemoryMap::CalculateRelPc) and the backtrace formatter           *)
(* (MemoryMap::FormatBacktrace).                                          *)
(*                                                                         *)
(* Addresses are uintptr_t values: every sum and difference the code      *)
(* computes on them is taken modulo 2^PtrBits.  The ELF layout is the     *)
(* Elf32 one (the non-__LP64__ branch of the source).                     *)
(***************************************************************************)
EXTENDS Integers, Sequences, FiniteSets, TLC

VARIABLES
  live,      \* index of the mapping description /proc/self/maps shows now
  entries,   \* MemoryMap::entries_, in ascending order of start
  status,    \* "idle", "formatting", "crashed", or "pure" (function checks)
  cause,     \* why the process crashed: "" | "segv_read" | "null_entry"
  last,      \* what the CalculateRelPc call that just returned did
  frames,    \* FormatBacktrace: the frames argument
  cursor,    \* FormatBacktrace: the loop variable (0-based)
  symbol,    \* FormatBacktrace: the local `symbol` (NoSym is nullptr)
  offset,    \* FormatBacktrace: the local `offset`
  str,       \* FormatBacktrace: the lines appended to `str` so far
  dlres,     \* what dladdr returned for each frame handled so far
  probe      \* the argument and result of a pure-function evaluation

vars == <<live, entries, status, cause, last, frames, cursor, symbol, offset,
          str, dlres, probe>>

----------------------------------------------------------------------------
(* Bounds of the model *)

\* width of uintptr_t in the model (the arithmetic is the code's, mod 2^w)
PtrBits == 16
\* longest frame sequence handed to FormatBacktrace
MaxFrames == 2

Mod == 2^PtrBits

\* x reduced to a uintptr_t
Wrap(x) == ((x % Mod) + Mod) % Mod

----------------------------------------------------------------------------
(* Constants of <sys/mman.h> and <elf.h> (Elf32) the source uses *)

PROT_READ == 1
PROT_EXEC == 4
SELFMAG == 4
PT_LOAD == 1
PF_X == 1
SZ_Half == 2
SZ_Word == 4
SZ_Off == 4
SZ_Addr == 4
SZ_Phdr == 32
OFF_e_phoff == 28
OFF_e_phnum == 44
OFF_p_type == 0
OFF_p_offset == 4
OFF_p_vaddr == 8
OFF_p_flags == 24

\* flags & bit, for the one-bit masks above
HasBit(flags, bit) == (flags \div bit) % 2 = 1

----------------------------------------------------------------------------
(* The process's memory: what a mapping holds at its start.  An image is  *)
(* the ELF header material found there: the magic, e_phoff, e_phnum and   *)
(* the program headers at e_phoff; every other byte reads as 0.           *)

Phdr(t, f, o, v) == [p_type |-> t, p_flags |-> f, p_offset |-> o, p_vaddr |-> v]

Images ==
  [ Data    |-> [magic |-> FALSE, e_phoff |-> 0, e_phnum |-> 0, ph |-> <<>>],
    ElfA    |-> [magic |-> TRUE, e_phoff |-> 52, e_phnum |-> 2,
                 ph |-> <<Phdr(6, 4, 52, 52), Phdr(PT_LOAD, 5, 256, 512)>>],
    ElfB    |-> [magic |-> TRUE, e_phoff |-> 52, e_phnum |-> 3,
                 ph |-> <<Phdr(PT_LOAD, 4, 0, 0), Phdr(PT_LOAD, 5, 4096, 8192),
                          Phdr(PT_LOAD, 5, 0, 64)>>],
    ElfC    |-> [magic |-> TRUE, e_phoff |-> 52, e_phnum |-> 1,
                 ph |-> <<Phdr(PT_LOAD, 5, 4096, 0)>>],
    ElfNoX  |-> [magic |-> TRUE, e_phoff |-> 52, e_phnum |-> 2,
                 ph |-> <<Phdr(PT_LOAD, 4, 0, 0), Phdr(PT_LOAD, 6, 4096, 8192)>>],
    ElfTrunc |-> [magic |-> TRUE, e_phoff |-> 240, e_phnum |-> 1,
                 ph |-> <<Phdr(PT_LOAD, 5, 0, 128)>>],
    ElfOdd  |-> [magic |-> TRUE, e_phoff |-> 54, e_phnum |-> 1,
                 ph |-> <<Phdr(PT_LOAD, 5, 0, 128)>>] ]

ImageIds == DOMAIN Images

\* the value of the size-byte object at byte `rel` of a mapping holding img
Cell(img, rel, size) ==
  IF rel = OFF_e_phnum /\ size = SZ_Half THEN img.e_phnum
  ELSE IF rel = OFF_e_phoff /\ size = SZ_Off THEN img.e_phoff
  ELSE IF img.magic /\ rel >= img.e_phoff
          /\ (rel - img.e_phoff) \div SZ_Phdr < Len(img.ph)
       THEN LET p == img.ph[((rel - img.e_phoff) \div SZ_Phdr) + 1]
                f == (rel - img.e_phoff) % SZ_Phdr
            IN  IF f = OFF_p_type THEN p.p_type
                ELSE IF f = OFF_p_offset THEN p.p_offset
                ELSE IF f = OFF_p_vaddr THEN p.p_vaddr
                ELSE IF f = OFF_p_flags THEN p.p_flags
                ELSE 0
       ELSE 0

----------------------------------------------------------------------------
(* /proc/self/maps: one record per text line.  perms is the 4-character   *)
(* permission string, path the rest of the line (with its newline); img   *)
(* is not text of the line but what the memory of that range holds.       *)

Line(s, e, p, o, n, i) ==
  [ok |-> TRUE, start |-> s, end |-> e, perms |-> p, offset |-> o,
   path |-> n, img |-> i]

\* a line sscanf cannot read a start and an end from
BadLine ==
  [ok |-> FALSE, start |-> 0, end |-> 0, perms |-> <<"-", "-", "-", "-">>,
   offset |-> 0, path |-> <<>>, img |-> "Data"]

RX == <<"r", "-", "x", "p">>
RO == <<"r", "-", "-", "p">>
NOPERM == <<"-", "-", "-", "p">>
NL == "\n"

LA  == Line(4096, 4352, RX, 0, <<"libA.so", NL>>, "ElfA")
LA2 == Line(4096, 4608, RX, 0, <<"libC.so", NL>>, "ElfC")
LB0 == Line(8192, 8448, RO, 0, <<"libB.so", NL>>, "ElfB")
LB1 == Line(8448, 8704, RX, 4096, <<"libB.so", NL>>, "Data")
LH  == Line(8448, 8704, RX, 4096, <<"libH.so", NL>>, "Data")
LN  == Line(12288, 12544, NOPERM, 0, <<NL>>, "ElfA")
LK  == Line(16384, 16640, RX, 0, <<"libkoom-native.so", NL>>, "ElfNoX")
LE0 == Line(20480, 20736, RO, 8192, <<"base.apk", NL>>, "ElfOdd")
LE1 == Line(20736, 20992, RX, 12288, <<"base.apk">>, "Data")
LD0 == Line(24576, 24832, RO, 0, <<"libD.so", NL>>, "Data")
LD1 == Line(24832, 25088, RX, 4096, <<"libD.so", NL>>, "Data")
\* the mapping descriptions the process shows over time (libraries are
\* loaded, unloaded and replaced); any two lines of them have the same
\* start or are disjoint
Snapshots ==
  << <<LA, LN>>,
     <<LA, LB0, LB1, LN>>,
     <<LA2, LB0, LH, LE0, LE1>>,
     <<LD0, LD1, BadLine, LE0, LE1>>,
     <<LA, LK>> >>

\* the descriptions the resolver's runs and the formatter's runs move among
ResolveSnaps == {1, 2, 3, 4}
FormatSnaps == {1, 5}

\* the pcs the callers ask about
PCs == {4100, 4352, 8200, 8500, 12300, 20800, 24900, 40000}
FramePCs == {4100, 16400, 40000}

----------------------------------------------------------------------------
(* MapEntry and the ordered set entries_ (memory_map.h) *)

\* MapEntry(start, end, offset, name, name_len, flags): a fresh entry.
\* insp is not a field of the code: it records what ELF inspection read
\* from the entry's memory ("unread": nothing was read; an image id: the
\* magic compare read that image; "fault": a read hit unmapped memory).
MapEntry(s, e, o, n, f) ==
  [start |-> s, end |-> e, offset |-> o, name |-> n, flags |-> f,
   load_bias |-> 0, elf_start_offset |-> 0, init |-> FALSE, valid |-> FALSE,
   insp |-> "unread"]

\* entries_.find(&pc_entry): the index of the entry containing pc, 0 for end()
FindPc(es, pc) ==
  LET hit == {i \in 1..Len(es) : es[i].start <= pc /\ pc < es[i].end}
  IN  IF hit = {} THEN 0 ELSE CHOOSE i \in hit : \A j \in hit : i <= j

\* entries_.find(entry): the index of the entry equivalent to a parsed one
FindEntry(es, e) ==
  LET hit == {i \in 1..Len(es) : es[i].start = e.start}
  IN  IF hit = {} THEN 0 ELSE CHOOSE i \in hit : TRUE

\* entries_.insert(entry): the set stays in ascending order of start
Insert(es, e) ==
  LET k == Cardinality({i \in 1..Len(es) : es[i].start < e.start})
  IN  SubSeq(es, 1, k) \o <<e>> \o SubSeq(es, k + 1, Len(es))

\* MapEntry::NeedIgnore(): the frame belongs to the engine's own library
NeedIgnore(entry) == entry.name = <<"libkoom-native.so">>

----------------------------------------------------------------------------
(* ParseLine *)

\* the text after name_pos without its trailing newline
ParseName(path) ==
  IF Len(path) > 0 /\ path[Len(path)] = NL
  THEN SubSeq(path, 1, Len(path) - 1) ELSE path

ParseFlags(perms) ==
  (IF perms[1] = "r" THEN PROT_READ ELSE 0)
  + (IF perms[3] = "x" THEN PROT_EXEC ELSE 0)

\* an unreadable map is marked inspected here
MarkUnreadable_Lazy(entry) == entry
MarkUnreadable(entry) ==
  IF ~HasBit(entry.flags, PROT_READ)
  THEN [entry EXCEPT !.load_bias = 0, !.init = TRUE, !.valid = FALSE]
  ELSE entry

\* <<>> is nullptr, <<entry>> the new entry
ParseLine(line) ==
  IF ~line.ok THEN <<>>
  ELSE <<MarkUnreadable(MapEntry(line.start, line.end, line.offset,
                                 ParseName(line.path), ParseFlags(line.perms)))>>

----------------------------------------------------------------------------
(* Reading the process's memory *)

\* the readable live mappings holding all of [addr, addr + size)
MappedAt(lv, addr, size) ==
  {i \in 1..Len(Snapshots[lv]) :
     /\ Snapshots[lv][i].ok /\ Snapshots[lv][i].perms[1] = "r"
     /\ Snapshots[lv][i].start <= addr /\ addr + size <= Snapshots[lv][i].end}

\* the live mapping that holds [addr, addr + size), when there is one
MappingOf(lv, addr, size) ==
  Snapshots[lv][CHOOSE i \in MappedAt(lv, addr, size) : TRUE]

\* *reinterpret_cast<T *>(addr): the value, or a fault on unmapped memory
Load(lv, addr, size) ==
  IF MappedAt(lv, addr, size) = {} THEN [st |-> "fault", v |-> 0]
  ELSE [st |-> "ok",
        v |-> Cell(Images[MappingOf(lv, addr, size).img],
                   addr - MappingOf(lv, addr, size).start, size)]

\* memcmp(addr, ELFMAG, SELFMAG) == 0, with the image the bytes belong to
LoadMagic(lv, addr) ==
  IF MappedAt(lv, addr, SELFMAG) = {}
  THEN [st |-> "fault", v |-> FALSE, img |-> "fault"]
  ELSE [st |-> "ok",
        v |-> /\ Images[MappingOf(lv, addr, SELFMAG).img].magic
              /\ addr = MappingOf(lv, addr, SELFMAG).start,
        img |-> MappingOf(lv, addr, SELFMAG).img]

----------------------------------------------------------------------------
(* GetVal, ValidElf, ReadLoadbias, Init *)

\* GetVal<T>'s two checks with sizeof(T) = size: TRUE when it goes on to
\* dereference addr
GetVal(entry, addr, size) ==
  /\ ~( \/ ~HasBit(entry.flags, PROT_READ)
        \/ addr < entry.start
        \/ Wrap(addr + size) > entry.end )
  /\ addr % size = 0

\* GetVal<T>(entry, addr, &store): "unavail" is the false return
Read(entry, lv, addr, size) ==
  IF GetVal(entry, addr, size) THEN Load(lv, addr, size)
  ELSE [st |-> "unavail", v |-> 0]

\* ValidElf's bound check: TRUE when it goes on to the memcmp
ValidElfBounds(entry) ==
  ~( \/ entry.start + SELFMAG >= Mod       \* __builtin_add_overflow
     \/ entry.start + SELFMAG >= entry.end )

\* memcmp(...) == 0
MagicMatches_Inverted(m) == [m EXCEPT !.v = ~m.v]
MagicMatches(m) == m

\* ValidElf given what the memcmp finds at entry->start (m is looked at only
\* when the bound check lets the memcmp run)
ValidElfOn(entry, m) ==
  IF ~ValidElfBounds(entry) THEN [st |-> "ok", v |-> FALSE, img |-> "unread"]
  ELSE MagicMatches(m)

ValidElf(entry, lv) == ValidElfOn(entry, LoadMagic(lv, entry.start))

\* load_bias = p_vaddr - p_offset
Bias_Sum(vaddr, off) == Wrap(vaddr + off)
Bias(vaddr, off) == Wrap(vaddr - off)

\* ReadLoadbias returning early on a failed GetVal: load_bias stays 0
GaveUp(r) == [st |-> IF r.st = "fault" THEN "fault" ELSE "ok", v |-> 0]

\* the loop of ReadLoadbias from header i on; v is the load bias it leaves.
\* WalkStep is one iteration, given the four GetVal results t, f, o, a for
\* p_type, p_flags, p_offset and p_vaddr (a is looked at only for an
\* executable PT_LOAD).
RECURSIVE WalkPhdrs(_, _, _, _, _)
RECURSIVE WalkStep(_, _, _, _, _, _, _, _, _)
WalkStep(entry, lv, addr, i, phnum, t, f, o, a) ==
  IF t.st # "ok" THEN GaveUp(t)
  ELSE IF f.st # "ok" THEN GaveUp(f)
  ELSE IF o.st # "ok" THEN GaveUp(o)
  ELSE IF t.v = PT_LOAD /\ HasBit(f.v, PF_X)
       THEN IF a.st # "ok" THEN GaveUp(a)
            ELSE [st |-> "ok", v |-> Bias(a.v, o.v)]
  ELSE WalkPhdrs(entry, lv, Wrap(addr + SZ_Phdr), i + 1, phnum)

WalkPhdrs(entry, lv, addr, i, phnum) ==
  IF i >= phnum THEN [st |-> "ok", v |-> 0]
  ELSE WalkStep(entry, lv, addr, i, phnum,
                Read(entry, lv, Wrap(addr + OFF_p_type), SZ_Word),
                Read(entry, lv, Wrap(addr + OFF_p_flags), SZ_Word),
                Read(entry, lv, Wrap(addr + OFF_p_offset), SZ_Off),
                Read(entry, lv, Wrap(addr + OFF_p_vaddr), SZ_Addr))

\* ReadLoadbias after its two header reads n (e_phnum) and p (e_phoff)
ReadLoadbiasFrom(entry, lv, n, p) ==
  IF n.st # "ok" THEN GaveUp(n)
  ELSE IF p.st # "ok" THEN GaveUp(p)
  ELSE WalkPhdrs(entry, lv, Wrap(entry.start + p.v), 0, n.v)

ReadLoadbias(entry, lv) ==
  ReadLoadbiasFrom(entry, lv,
                   Read(entry, lv, Wrap(entry.start + OFF_e_phnum), SZ_Half),
                   Read(entry, lv, Wrap(entry.start + OFF_e_phoff), SZ_Off))

\* Init after ReadLoadbias returned rb: e2 is the entry marked valid
InitBias(e2, rb) ==
  IF rb.st = "fault" THEN [e |-> [e2 EXCEPT !.insp = "fault"], st |-> "fault"]
  ELSE [e |-> [e2 EXCEPT !.load_bias = rb.v], st |-> "ok"]

\* Init after ValidElf returned ve: e1 is the entry with init set
InitValid(e1, lv, ve) ==
  IF ve.st = "fault" THEN [e |-> [e1 EXCEPT !.insp = "fault"], st |-> "fault"]
  ELSE IF ~ve.v THEN [e |-> [e1 EXCEPT !.insp = ve.img], st |-> "ok"]
  ELSE InitBias([e1 EXCEPT !.valid = TRUE, !.load_bias = 0, !.insp = ve.img],
                ReadLoadbias([e1 EXCEPT !.valid = TRUE, !.load_bias = 0], lv))

\* Init(entry): e is the entry afterwards, st "fault" when a read crashed
Init(entry, lv) ==
  IF entry.init THEN [e |-> entry, st |-> "ok"]
  ELSE InitValid([entry EXCEPT !.init = TRUE], lv,
                 ValidElf([entry EXCEPT !.init = TRUE], lv))

----------------------------------------------------------------------------
(* MemoryMap::ReadMaps *)

\* the while loop from line i of the file on; ReadLine is one iteration,
\* given ParseLine's result p
RECURSIVE ReadLines(_, _, _)
RECURSIVE ReadLine(_, _, _, _)
ReadLine(es, lines, i, p) ==
  IF p = <<>> THEN [entries |-> es, ok |-> FALSE]
  ELSE IF FindEntry(es, p[1]) = 0
       THEN ReadLines(Insert(es, p[1]), lines, i + 1)
       ELSE ReadLines(es, lines, i + 1)

ReadLines(es, lines, i) ==
  IF i > Len(lines) THEN [entries |-> es, ok |-> TRUE]
  ELSE ReadLine(es, lines, i, ParseLine(lines[i]))

\* fopenOk: whether fopen("/proc/self/maps") gave a stream
ReadMaps(es, lv, fopenOk) ==
  IF ~fopenOk THEN [entries |-> es, ok |-> FALSE]
  ELSE ReadLines(es, Snapshots[lv], 1)

----------------------------------------------------------------------------
(* MemoryMap::CalculateRelPc *)

\* entries_ with the entry at index i replaced (the code writes through the
\* pointer the set holds)
Put(es, i, e) == [es EXCEPT ![i] = e]

\* whether the previous entry is the read-only map of the same file
IsReadOnlyPrev_NoName(prev, entry) ==
  /\ prev.flags = PROT_READ
  /\ prev.offset < entry.offset
IsReadOnlyPrev(prev, entry) ==
  /\ prev.flags = PROT_READ
  /\ prev.offset < entry.offset
  /\ prev.name = entry.name

\* *rel_pc = pc - entry->start + entry->load_bias, when rel_pc is not null
PlainRelPc(es, i, pc, wantRel, rel0) ==
  [entries |-> es, st |-> "ok", fixed |-> FALSE,
   rel |-> IF wantRel THEN Wrap(pc - es[i].start + es[i].load_bias) ELSE rel0]

\* the branch taken once Init(prev_entry) returned rp
FixedRelPc(es, i, pc, wantRel, rel0, rp) ==
  IF rp.st = "fault"
  THEN [entries |-> Put(es, i - 1, rp.e), st |-> "fault", fixed |-> FALSE,
        rel |-> rel0]
  ELSE IF rp.e.valid
  THEN [entries |-> Put(Put(es, i - 1, rp.e), i,
                        [es[i] EXCEPT !.elf_start_offset = rp.e.offset]),
        st |-> "ok", fixed |-> TRUE,
        rel |-> Wrap(pc - es[i].start + es[i].offset + rp.e.load_bias)]
  ELSE PlainRelPc(Put(es, i - 1, rp.e), i, pc, wantRel, rel0)

\* the part of CalculateRelPc after Init(entry): es holds the inspected
\* entry at index i; rel0 is the caller's *rel_pc before the call
RelPcOf(es, lv, i, pc, wantRel, rel0) ==
  IF wantRel /\ ~es[i].valid /\ i # 1 /\ IsReadOnlyPrev(es[i - 1], es[i])
  THEN FixedRelPc(es, i, pc, wantRel, rel0, Init(es[i - 1], lv))
  ELSE PlainRelPc(es, i, pc, wantRel, rel0)

\* what a call did: hit0, the first find succeeded; rm, ReadMaps' result
\* (or the table as it was); i, the second find (0: nullptr is returned);
\* q, the result of the part after the finds
CallResult(pc, wantRel, hit0, rm, i, q) ==
  [pc |-> pc, want |-> wantRel, hit0 |-> hit0 # 0,
   rebuilds |-> IF hit0 = 0 THEN 1 ELSE 0,
   searches |-> IF hit0 = 0 THEN 2 ELSE 1,
   readOk |-> rm.ok, idx |-> i,
   preEso |-> IF i = 0 THEN 0 ELSE rm.entries[i].elf_start_offset,
   entries |-> q.entries, st |-> q.st, rel |-> q.rel, fixed |-> q.fixed]

\* from Init(entry) on; r is Init's result
Inspected(es, lv, i, pc, wantRel, rel0, r) ==
  IF r.st = "fault"
  THEN [entries |-> Put(es, i, r.e), st |-> "fault", fixed |-> FALSE, rel |-> rel0]
  ELSE RelPcOf(Put(es, i, r.e), lv, i, pc, wantRel, rel0)

\* from the second find on
Looked(lv, pc, wantRel, rel0, hit0, rm, i) ==
  CallResult(pc, wantRel, hit0, rm, i,
    IF i = 0
    THEN [entries |-> rm.entries, st |-> "ok", fixed |-> FALSE, rel |-> rel0]
    ELSE Inspected(rm.entries, lv, i, pc, wantRel, rel0, Init(rm.entries[i], lv)))

\* from the first find on: ReadMaps runs when it missed
Missed(lv, pc, wantRel, rel0, hit0, rm) ==
  Looked(lv, pc, wantRel, rel0, hit0, rm, FindPc(rm.entries, pc))

\* CalculateRelPc(pc, rel_pc): idx = 0 is the nullptr return
CalculateRelPc(es, lv, pc, wantRel, rel0, fopenOk) ==
  Missed(lv, pc, wantRel, rel0, FindPc(es, pc),
         IF FindPc(es, pc) = 0 THEN ReadMaps(es, lv, fopenOk)
         ELSE [entries |-> es, ok |-> TRUE])

----------------------------------------------------------------------------
(* The resolver: lookups against a changing address space *)

NoCall == [kind |-> "none"]

CallRecord(r) ==
  [kind |-> "call", pc |-> r.pc, want |-> r.want, hit0 |-> r.hit0,
   rebuilds |-> r.rebuilds, searches |-> r.searches, readOk |-> r.readOk,
   idx |-> r.idx, rel |-> r.rel, fixed |-> r.fixed, preEso |-> r.preEso]

NoFormat ==
  /\ frames = <<>> /\ cursor = 0 /\ symbol = "NoSym" /\ offset = 0
  /\ str = <<>> /\ dlres = <<>>

InitResolve ==
  /\ live = 1
  /\ entries = <<>>
  /\ status = "idle"
  /\ cause = ""
  /\ last = NoCall
  /\ NoFormat
  /\ probe = <<>>

\* dlopen, dlclose, mmap, munmap by the rest of the process
MapsChange(s) ==
  /\ status # "crashed"
  /\ last = NoCall
  /\ s # live
  /\ live' = s
  /\ UNCHANGED <<entries, status, cause, last, frames, cursor, symbol, offset,
                 str, dlres, probe>>

\* the state after a CalculateRelPc call with result r
Returned(r) ==
  /\ entries' = r.entries
  /\ status' = IF r.st = "fault" THEN "crashed" ELSE "idle"
  /\ cause' = IF r.st = "fault" THEN "segv_read" ELSE ""
  /\ last' = IF r.st = "fault" THEN NoCall ELSE CallRecord(r)

\* a caller runs CalculateRelPc(pc, rel_pc); wantRel: rel_pc != nullptr
Resolve(pc, wantRel, fopenOk) ==
  /\ status = "idle"
  /\ last = NoCall
  /\ fopenOk \/ FindPc(entries, pc) = 0     \* fopen runs only on a miss
  /\ Returned(CalculateRelPc(entries, live, pc, wantRel, 0, fopenOk))
  /\ UNCHANGED <<live, frames, cursor, symbol, offset, str, dlres, probe>>

\* the caller takes the returned entry and rel_pc
Consume ==
  /\ status = "idle"
  /\ last # NoCall
  /\ last' = NoCall
  /\ UNCHANGED <<live, entries, status, cause, frames, cursor, symbol, offset,
                 str, dlres, probe>>

NextResolve ==
  \/ Consume
  \/ \E s \in ResolveSnaps : MapsChange(s)
  \/ \E pc \in PCs, wantRel \in BOOLEAN, fopenOk \in BOOLEAN :
       Resolve(pc, wantRel, fopenOk)

Spec == InitResolve /\ [][NextResolve]_vars

----------------------------------------------------------------------------
(* MemoryMap::FormatBacktrace *)

\* dladdr(frame, &info): hit is a non-zero return; "NoSym" and "NoFile"
\* are null dli_sname and dli_fname
DlMiss == [hit |-> FALSE, saddr |-> 0, sname |-> "NoSym", fname |-> "NoFile"]
DlResults(pc) ==
  { DlMiss,
    [hit |-> TRUE, saddr |-> 0, sname |-> "NoSym", fname |-> "/system/lib/libx.so"],
    [hit |-> TRUE, saddr |-> Wrap(pc - 4), sname |-> "_Z3foov",
     fname |-> "/system/lib/libx.so"] }

\* abi::__cxa_demangle, and the fall back to the symbol itself
Demangle(sym) == IF sym = "_Z3foov" THEN "foo()" ELSE sym

\* the frame sequences a caller passes
FrameSeqs == UNION {[1..n -> FramePCs] : n \in 0..MaxFrames}

\* what entry->NeedIgnore() may do when entry is nullptr
NullCallOutcomes == {"crash", "true", "false"}

\* the locals `symbol` and `offset` after the dladdr branch
SymbolAfter(dl, sym) == IF dl.hit THEN dl.sname ELSE sym
OffsetAfter(dl, off) == IF dl.hit THEN dl.saddr ELSE off

\* the text appended to str for one frame, by its parts; sym = "NoSym" is
\* the line without the " (name+offset)" part, eso = 0 the line without
\* the " (offset 0x...)" part
FrameLine(i, pc, r, dl, sym, off) ==
  [index |-> i,
   rel_pc |-> r.rel,
   soname |-> IF r.idx # 0 THEN r.entries[r.idx].name
              ELSE IF dl.fname # "NoFile" THEN <<dl.fname>>
              ELSE <<"<unknown>">>,
   eso |-> IF r.idx # 0 THEN r.entries[r.idx].elf_start_offset ELSE 0,
   sym |-> IF sym # "NoSym" THEN Demangle(sym) ELSE "NoSym",
   symoff |-> IF sym # "NoSym" THEN Wrap(pc - off) ELSE 0]

InitFormat ==
  /\ live = 1
  /\ entries = <<>>
  /\ status = "idle"
  /\ cause = ""
  /\ last = NoCall
  /\ NoFormat
  /\ probe = <<>>

\* FormatBacktrace(frames, frame_count) is entered
FormatBegin(fs) ==
  /\ status = "idle"
  /\ status' = "formatting"
  /\ frames' = fs
  /\ cursor' = 0
  /\ symbol' = "NoSym"
  /\ offset' = 0
  /\ str' = <<>>
  /\ dlres' = <<>>
  /\ UNCHANGED <<live, entries, cause, last, probe>>

\* whether pc lies in a mapping of the description shown now
InLiveMapping(pc) ==
  \E i \in 1..Len(Snapshots[live]) :
    /\ Snapshots[live][i].ok
    /\ Snapshots[live][i].start <= pc /\ pc < Snapshots[live][i].end

\* the iteration from the CalculateRelPc call on: r is its result, sym and
\* off the locals after the dladdr branch, ub what the call through a null
\* entry does
Framed(pc, dl, ub, sym, off, r) ==
  /\ (r.st = "ok" /\ r.idx = 0) \/ ub = "false"
  /\ entries' = r.entries
  /\ symbol' = sym
  /\ offset' = off
  /\ dlres' = Append(dlres, [dl |-> dl, found |-> r.idx # 0,
                             mapped |-> InLiveMapping(pc)])
  /\ IF r.st = "fault"
     THEN status' = "crashed" /\ cause' = "segv_read" /\ UNCHANGED <<str, cursor>>
     ELSE IF r.idx = 0 /\ ub = "crash"
     THEN status' = "crashed" /\ cause' = "null_entry" /\ UNCHANGED <<str, cursor>>
     ELSE IF (IF r.idx = 0 THEN ub = "true" ELSE NeedIgnore(r.entries[r.idx]))
     THEN status' = "idle" /\ UNCHANGED <<cause, str, cursor>>
     ELSE /\ str' = Append(str, FrameLine(cursor, pc, r, dl, sym, off))
          /\ cursor' = cursor + 1
          /\ UNCHANGED <<status, cause>>

\* one iteration of the for loop
FormatFrame(dl, fopenOk, ub) ==
  /\ status = "formatting"
  /\ cursor < Len(frames)
  /\ dl \in DlResults(frames[cursor + 1])
  /\ fopenOk \/ FindPc(entries, frames[cursor + 1]) = 0
  /\ Framed(frames[cursor + 1], dl, ub, SymbolAfter(dl, symbol),
            OffsetAfter(dl, offset),
            CalculateRelPc(entries, live, frames[cursor + 1], TRUE,
                           OffsetAfter(dl, offset), fopenOk))
  /\ UNCHANGED <<live, last, frames, probe>>

\* the loop ran out of frames: return str
FormatReturn ==
  /\ status = "formatting"
  /\ cursor = Len(frames)
  /\ status' = "idle"
  /\ UNCHANGED <<live, entries, cause, last, frames, cursor, symbol, offset,
                 str, dlres, probe>>

NextFormat ==
  \/ \E s \in FormatSnaps : MapsChange(s)
  \/ \E fs \in FrameSeqs : FormatBegin(fs)
  \/ \E pc \in FramePCs, fopenOk \in BOOLEAN, ub \in NullCallOutcomes :
       \E dl \in DlResults(pc) : FormatFrame(dl, fopenOk, ub)
  \/ FormatReturn

SpecFormat == InitFormat /\ [][NextFormat]_vars

----------------------------------------------------------------------------
(* GetVal and ValidElf on synthetic entries *)

\* the largest distance of a synthetic entry's end from its start, in words
MaxSpan == 2

SynthStarts == {0, 8, Mod - 8, Mod - 4}
SynthFlags == {0, PROT_READ, PROT_READ + PROT_EXEC}
SynthEnds(s) ==
  {x \in {s + SZ_Word * d : d \in 0..MaxSpan} \cup {Mod - 1} : x < Mod}
SynthEntries ==
  UNION { {MapEntry(s, e, 0, <<>>, f) : e \in SynthEnds(s), f \in SynthFlags}
          : s \in SynthStarts }

SynthAddrs(e) ==
  {a \in {e.start + d : d \in {0, 1, 2, 4, 6}}
         \cup {e.end - d : d \in {0, 2, 4}}
         \cup {Mod - d : d \in {1, 2, 4}} : 0 <= a /\ a < Mod}

InitPrimitives ==
  /\ live = 1
  /\ entries = <<>>
  /\ status = "pure"
  /\ cause = ""
  /\ last = NoCall
  /\ NoFormat
  /\ \E e \in SynthEntries, z \in {SZ_Half, SZ_Word, SZ_Off, SZ_Addr},
        m \in BOOLEAN :
       \E a \in SynthAddrs(e) :
         probe = [fn |-> "input", entry |-> e, addr |-> a, size |-> z,
                  magic |-> m, ok |-> FALSE]

\* GetVal<T>(entry, addr, &store) is evaluated on the input
CallGetVal ==
  /\ probe.fn = "input"
  /\ probe' = [probe EXCEPT !.fn = "GetVal",
                            !.ok = GetVal(probe.entry, probe.addr, probe.size)]
  /\ UNCHANGED <<live, entries, status, cause, last, frames, cursor, symbol,
                 offset, str, dlres>>

\* ValidElf(entry) is evaluated on the input, the 4 bytes at entry->start
\* being the magic or not
CallValidElf ==
  /\ probe.fn = "input"
  /\ probe' = [probe EXCEPT !.fn = "ValidElf",
                            !.ok = ValidElfOn(probe.entry,
                                              [st |-> "ok", v |-> probe.magic,
                                               img |-> "Data"]).v]
  /\ UNCHANGED <<live, entries, status, cause, last, frames, cursor, symbol,
                 offset, str, dlres>>

NextPrimitives == CallGetVal \/ CallValidElf

SpecPrimitives == InitPrimitives /\ [][NextPrimitives]_vars

----------------------------------------------------------------------------
(* What the claims speak of, stated apart from the code's operators *)

\* the fields ParseLine takes from a line
Key(e) == [start |-> e.start, end |-> e.end, offset |-> e.offset,
           name |-> e.name, flags |-> e.flags]
TableKeys == {Key(entries[i]) : i \in 1..Len(entries)}

\* the entries the mapping description shown now describes
LiveLines == {Snapshots[live][i] : i \in 1..Len(Snapshots[live])}
LiveKeys ==
  {[start |-> l.start, end |-> l.end, offset |-> l.offset,
    name |-> SelectSeq(l.path, LAMBDA c : c # NL),
    flags |-> (IF l.perms[1] = "r" THEN 1 ELSE 0) + (IF l.perms[3] = "x" THEN 4 ELSE 0)]
     : l \in {m \in LiveLines : m.ok}}

\* every byte of [addr, addr + size) is in a readable entry's range and
\* addr is a multiple of size
Avail(e, addr, size) ==
  /\ HasBit(e.flags, PROT_READ)
  /\ e.start <= addr /\ addr + size <= e.end
  /\ addr % size = 0

IsExecLoad(p) == p.p_type = PT_LOAD /\ HasBit(p.p_flags, PF_X)

\* program header j (from 1) of img is its first executable PT_LOAD and
\* every field the walk needs up to it lies in the entry
FirstExecLoadAt(e, img, j) ==
  /\ j <= Len(img.ph) /\ j <= img.e_phnum
  /\ IsExecLoad(img.ph[j])
  /\ \A k \in 1..(j - 1) : ~IsExecLoad(img.ph[k])
  /\ Avail(e, e.start + OFF_e_phnum, SZ_Half)
  /\ Avail(e, e.start + OFF_e_phoff, SZ_Off)
  /\ \A k \in 1..j :
       LET a == e.start + img.e_phoff + SZ_Phdr * (k - 1)
       IN  /\ Avail(e, a + OFF_p_type, SZ_Word)
           /\ Avail(e, a + OFF_p_flags, SZ_Word)
           /\ Avail(e, a + OFF_p_offset, SZ_Off)
  /\ Avail(e, e.start + img.e_phoff + SZ_Phdr * (j - 1) + OFF_p_vaddr, SZ_Addr)

HeaderWalkFinds(e, img) == \E j \in 1..Len(img.ph) : FirstExecLoadAt(e, img, j)

\* the entry the call that just returned resolved to
Called == last.kind = "call"
Found == Called /\ last.idx # 0
LastEntry == entries[last.idx]
LastPrev == entries[last.idx - 1]

----------------------------------------------------------------------------
(* C2 *)

\* C2: after a rebuild triggered by a lookup miss (the description was read
\* to its end), the table holds exactly the entries the description read
\* describes: nothing of the earlier snapshot that is absent from it or
\* changed in it is still in the table.
C2_RebuildReplacesTable ==
  (Called /\ last.rebuilds = 1 /\ last.readOk) => TableKeys = LiveKeys

----------------------------------------------------------------------------
(* C3 *)

\* C3: a lookup does no rebuild and one search when the address is in the
\* snapshot, one rebuild and one retried search when it is not, and an
\* address inside a mapping of the description read by that rebuild is found.
C3_RebuildOnceThenFound ==
  Called =>
    /\ last.hit0 => last.rebuilds = 0 /\ last.searches = 1
    /\ ~last.hit0 => last.rebuilds = 1 /\ last.searches = 2
    /\ (last.readOk /\ \E l \in LiveLines : l.ok /\ l.start <= last.pc /\ last.pc < l.end)
         => last.idx # 0

----------------------------------------------------------------------------
(* C4 *)

\* the conditions of the split-mapping correction, on the state after the call
SplitCase ==
  /\ ~LastEntry.valid
  /\ last.idx > 1
  /\ HasBit(LastPrev.flags, PROT_READ) /\ ~HasBit(LastPrev.flags, PROT_EXEC)
  /\ LastPrev.offset < LastEntry.offset
  /\ LastPrev.name = LastEntry.name
  /\ LastPrev.init /\ LastPrev.valid

\* C4: resolving a pc (rel_pc requested) uses the split-mapping correction
\* exactly when the entry is not valid and the entry before it is read-only
\* without the execute bit, has a smaller offset, the same name, and is valid
\* once inspected: then rel_pc = pc - start + offset + prev.load_bias and
\* elf_start_offset = prev.offset; otherwise rel_pc = pc - start + load_bias
\* and elf_start_offset is what it was before the call.
C4_SplitMappingCorrection ==
  (Found /\ last.want) =>
    IF SplitCase
    THEN /\ last.rel = Wrap(last.pc - LastEntry.start + LastEntry.offset
                            + LastPrev.load_bias)
         /\ LastEntry.elf_start_offset = LastPrev.offset
    ELSE /\ last.rel = Wrap(last.pc - LastEntry.start + LastEntry.load_bias)
         /\ LastEntry.elf_start_offset = last.preEso

\* a correction took place and recorded a non-zero elf_start_offset
C4_Witness ==
  /\ Found /\ last.want /\ SplitCase
  /\ LastEntry.elf_start_offset = 8192
  /\ last.rel = Wrap(last.pc - LastEntry.start + 12288)

----------------------------------------------------------------------------
(* C5 *)

\* C5: when the memory of the entry, as inspected, is a single-segment ELF
\* image whose first executable PT_LOAD header has p_vaddr - p_offset = B,
\* resolving pc = start + k gives rel_pc = k + B (mod 2^w), on the call that
\* inspects the entry and on every later call.
C5_BiasedModule ==
  (Found /\ last.want /\ LastEntry.insp \in ImageIds) =>
    \A j \in 1..Len(Images[LastEntry.insp].ph) :
      (Images[LastEntry.insp].magic
       /\ FirstExecLoadAt(LastEntry, Images[LastEntry.insp], j))
        => last.rel = Wrap((last.pc - LastEntry.start)
                           + Images[LastEntry.insp].ph[j].p_vaddr
                           - Images[LastEntry.insp].ph[j].p_offset)

\* a later call (no rebuild) on an entry inspected as ElfC, whose bias
\* 0 - 4096 wraps
C5_Witness ==
  /\ Found /\ last.want /\ last.hit0
  /\ LastEntry.insp = "ElfC"
  /\ FirstExecLoadAt(LastEntry, Images["ElfC"], 1)
  /\ last.rel = Wrap(last.pc - LastEntry.start + Mod - 4096)

----------------------------------------------------------------------------
(* C6 *)

----------------------------------------------------------------------------
(* C9 *)

\* C9: every entry without read permission is inspected, not valid, has a
\* zero load bias, and ELF inspection has read nothing of its memory.
C9_UnreadableNeverInspected ==
  \A i \in 1..Len(entries) :
    ~HasBit(entries[i].flags, PROT_READ)
      => /\ entries[i].init /\ ~entries[i].valid /\ entries[i].load_bias = 0
         /\ entries[i].insp = "unread"

\* a pc inside an unreadable mapping (whose memory holds an ELF image) was
\* resolved
C9_Witness ==
  /\ Found /\ last.want
  /\ ~HasBit(LastEntry.flags, PROT_READ)
  /\ \E l \in LiveLines : l.start = LastEntry.start /\ Images[l.img].magic
  /\ last.rel = last.pc - LastEntry.start

----------------------------------------------------------------------------
(* C1 *)

\* C1: a frame whose address is in no mapping, so that CalculateRelPc
\* returns nullptr after its rebuild, gets a best-effort line (the module
\* name from dladdr's file, else "<unknown>"): the null result is not used
\* as an entry, and the call goes on to the remaining frames.
C1_NotFoundDegrades ==
  \A i \in 1..Len(dlres) :
    (~dlres[i].found /\ ~dlres[i].mapped)
      => /\ i <= Len(str)
         /\ str[i].soname = IF dlres[i].dl.fname # "NoFile"
                            THEN <<dlres[i].dl.fname>> ELSE <<"<unknown>">>

----------------------------------------------------------------------------
(* C7 *)

\* C7: GetVal<T> returns a value only if the entry is readable, every byte
\* of [addr, addr + sizeof(T)) lies in [start, end) and addr is a multiple
\* of sizeof(T), for every pointer-width addr.
C7_GetValInBounds ==
  (probe # <<>> /\ probe.fn = "GetVal" /\ probe.ok)
    => /\ HasBit(probe.entry.flags, PROT_READ)
       /\ \A b \in probe.addr..(probe.addr + probe.size - 1) :
            probe.entry.start <= b /\ b < probe.entry.end
       /\ probe.addr % probe.size = 0

----------------------------------------------------------------------------
(* C8 *)

\* C8: ValidElf is true exactly when the 4 bytes at start are the magic and
\* [start, start + 4) does not run past end (without address wrap); a
\* mapping of exactly 4 bytes holding the magic is accepted.
C8_ValidElfIffMagicInRange ==
  (probe # <<>> /\ probe.fn = "ValidElf")
    => (probe.ok <=> (probe.magic /\ probe.entry.start + SELFMAG <= probe.entry.end))

----------------------------------------------------------------------------
(* C10 *)

\* C10: the line of a frame has a "(symbol+offset)" part only if dladdr
\* found a symbol for that frame, and then the name and the start address
\* are the ones dladdr returned for that frame (stated here for the frames
\* CalculateRelPc resolved to an entry).
C10_SymbolOfSameFrame ==
  \A i \in 1..Len(str) :
    (dlres[i].found /\ str[i].sym # "NoSym")
      => /\ dlres[i].dl.hit /\ dlres[i].dl.sname # "NoSym"
         /\ str[i].sym = Demangle(dlres[i].dl.sname)
         /\ str[i].symoff = Wrap(frames[i] - dlres[i].dl.saddr)

====
